---- MODULE Spec2Model ----
(***************************************************************************)
(* The gevent RPC runtime of cms/async/GeventLibrary.py: Service (main     *)
(* loop, reconnect sweep, timers, dispatcher) and RemoteService (dial,     *)
(* read loop, framing, push, execute_rpc).                                 *)
(*                                                                         *)
(* Scheduling is cooperative: one action is the code a greenlet runs       *)
(* between two suspension points (socket connect / recv / send,            *)
(* gevent.sleep).  Strings are sequences of tokens, time is counted in     *)
(* tenths of a second.                                                     *)
(***************************************************************************)
EXTENDS Integers, Sequences, FiniteSets, TLC

\* ------------------------------------------------------------------ bounds
\* Sockets the process may open or accept in one run.
MaxSock == 2
\* Outbound requests (RPCRequest objects) created in one run.
MaxReq == 1
\* Length of one pushed frame (payload + terminator) in send units.
FrameLen == 2
\* The clock is followed up to this instant (tenths of a second).
MaxTime == 7
\* Insertions into the timer heap in one run.
MaxIns == 3
\* Late wake-up of gevent.sleep (tenths of a second).
MaxJitter == 1
\* Longest period / delay of a registered timer (tenths of a second).
MaxPeriod == 2
\* Frames the remote end puts in one byte stream, and bytes of one frame.
MaxFrames == 2
MaxFrameLen == 2

\* ------------------------------------------------------- program constants
\* run(): self._trigger(maximum=0.5), in tenths of a second.
maximum == 5

\* --------------------------------------------------------------- strings
Null == <<>>

StartsWith(s, pre) ==
    /\ Len(s) >= Len(pre)
    /\ SubSeq(s, 1, Len(pre)) = pre

\* An exception object: its class and the argument it was built with.
Exc(cls, msg) == [cls |-> cls, msg |-> msg]

\* str(exception): KeyError.__str__ gives repr() of its single argument,
\* every other class used here gives the argument itself.
Str(exc) ==
    IF exc.cls = "KeyError"
    THEN <<"'">> \o exc.msg \o <<"'">>
    ELSE exc.msg

\* "%s: %s\n%s" % (exception.__class__.__name__, exception,
\*                 traceback.format_exc())
FormatError(exc) ==
    <<exc.cls, ": ">> \o Str(exc) \o <<"\n", "Traceback">>

\* ------------------------------------------------------ service attributes
\* Attributes of the Service class itself.  echo and quit carry @rpc_method;
\* exit is a plain method.
BaseMethods == {"echo", "quit", "exit"}
\* Attributes a concrete service adds: t_hidden carries only @rpc_threaded,
\* t_exposed carries @rpc_method and @rpc_threaded, blob carries @rpc_method
\* and returns a value JSON cannot encode.
SubclassMethods == {"t_hidden", "t_exposed", "blob"}
Attrs == BaseMethods \cup SubclassMethods

\* A JSON value that is not a string, used as "__method".
NotAString == "<5>"
\* A name that is no attribute of the service.
Unknown == "nope"

IsString(name) == name # NotAString
\* hasattr(method, "rpc_callable")
RpcCallable(name) == name \in {"echo", "quit", "t_exposed", "blob"}
\* hasattr(method, "threaded")
Threaded(name) == name \in {"t_hidden", "t_exposed"}

Raise(exc) == [raised |-> TRUE, exc |-> exc, val |-> "null"]
Return(v) == [raised |-> FALSE, exc |-> Exc("", Null), val |-> v]

\* getattr(self, method_name) guarded by a bare except whose handler builds
\* the KeyError message with "Service has no method " + method_name: the
\* concatenation itself raises TypeError when method_name is no string.
GetMethod(name) ==
    IF name \in Attrs THEN Return(name)
    ELSE IF IsString(name)
         THEN Raise(Exc("KeyError", <<"Service has no method ", name>>))
         ELSE Raise(Exc("TypeError", <<"cannot concatenate">>))

\* Service.method_info
method_info(name) ==
    LET m == GetMethod(name) IN
    IF m.raised THEN m
    ELSE Return([callable |-> RpcCallable(name), threaded |-> Threaded(name)])

\* The call method(**message["__data"]).  data is "good" (arguments the
\* method accepts) or "bad" (arguments it does not accept: TypeError).
CallMethod(name, data) ==
    IF data = "bad" THEN Raise(Exc("TypeError", <<"unexpected keyword argument">>))
    ELSE IF name = "echo" THEN Return("hello")
    ELSE IF name = "blob" THEN Return("OBJ")
    ELSE Return("null")

\* Whether handle_message reaches the call of the method.
Invokes(msg) ==
    /\ msg.method \in Attrs
    /\ RpcCallable(msg.method)
    /\ msg.data # "absent"

\* Service.handle_message
handle_message(msg) ==
    LET m == GetMethod(msg.method) IN
    IF m.raised THEN m
    ELSE IF ~RpcCallable(msg.method)
    THEN Raise(Exc("AuthorizationError",
                   <<"Method ", "<bound method ", msg.method, ">",
                     " not callable from RPC">>))
    ELSE IF msg.data = "absent"
    THEN Raise(Exc("ValueError", <<"No data present.">>))
    ELSE CallMethod(msg.method, msg.data)

\* encode_json: a value JSON cannot represent makes it raise ValueError.
Encodable(v) == v # "OBJ"


\* The response process_data builds for a request, and whether the exception
\* of method_info escapes process_data (only KeyError is caught there).
\*   escapes  : an exception leaves process_data
\*   response : the dictionary handed to send_reply
\*   invoked  : the method was called
ProcessRequest(msg) ==
    LET base == [hasId |-> msg.hasId, id |-> msg.id,
                 data |-> "null", error |-> Null]
        info == method_info(msg.method)
        res  == handle_message(msg)
    IN  IF info.raised
        THEN [escapes  |-> info.exc.cls # "KeyError",
              response |-> [base EXCEPT !.error = FormatError(info.exc)],
              invoked  |-> FALSE]
        ELSE IF info.val.threaded
        THEN [escapes  |-> FALSE,
              response |-> [base EXCEPT !.error = <<"Threaded RPC unsupported">>],
              invoked  |-> FALSE]
        ELSE IF res.raised
        THEN [escapes  |-> FALSE,
              response |-> [base EXCEPT !.error = FormatError(res.exc)],
              invoked  |-> Invokes(msg)]
        ELSE [escapes  |-> FALSE,
              response |-> [base EXCEPT !.data = res.val],
              invoked  |-> TRUE]

\* ----------------------------------------------------------- inbound frames
\* What a remote end can put on a connection, one frame at a time:
\*   garbage  : bytes decode_json rejects
\*   scalar   : a JSON value that is not an object (here a number)
\*   request  : an object with "__method"
\*   response : an object without "__method"
Frame(kind, method, data, id) ==
    [kind |-> kind, method |-> method, data |-> data,
     hasId |-> id # 0, id |-> id]

\* Request ids; 0 stands for "no __id field".
ReqIds == 1..MaxReq

Requests ==
    { Frame("request", m, d, i) :
        m \in Attrs \cup {Unknown, NotAString},
        d \in {"absent", "good", "bad"},
        i \in 0..MaxReq }

Responses == { Frame("response", "", "good", i) : i \in 0..MaxReq }

Garbage == Frame("garbage", "", "", 0)
Scalar == Frame("scalar", "", "", 0)
NoFrame == Frame("none", "", "", 0)

Frames == Requests \cup Responses \cup {Garbage, Scalar}

\* ------------------------------------------------------------------ state
RegPeers == {"r"}       \* coords the service registers with connect_to
AccPeers == {"a"}       \* RemoteService objects made by _connection_handler
Peers == RegPeers \cup AccPeers
Socks == 1..MaxSock
Tasks == {"t1"}         \* greenlets that call execute_rpc

VARIABLES
    \* Service
    exit,               \* self._exit
    timeouts,           \* self._timeouts: the list heapq keeps as a heap
    remote_services,    \* keys of self.remote_services
    on_connected,       \* coord -> on_remote_service_connected[coord] is not None
    server,             \* self.server: "absent", "created", "started", "stopped"
    \* Service.run / _trigger / _reconnect
    main,               \* the main greenlet: pc, current, sleep, todo, peer
    helpers,            \* greenlets spawned by _trigger, one per fired entry
    now,                \* time.time()
    \* RemoteService, per peer
    peers,              \* the RemoteService objects that exist
    connected,          \* self.connected
    socket,             \* self.socket (0: not set yet)
    \* sockets and the remote ends
    sockState,          \* "free", "open", "eof" (the remote end closed)
    sockPeer,           \* the RemoteService a socket was installed on
    reachable,          \* whether a dial to a registered coord succeeds
    \* greenlets
    loop,               \* socket -> the _loop greenlet spawned with it
    task,               \* execute_rpc callers
    \* RPCRequest
    pending_requests,   \* keys of RPCRequest.pending_requests
    request,            \* id -> the RPCRequest object made with that id
    \* history
    lastFrame,          \* the last request frame process_data was given
    lastOut,            \* what process_data did with it
    notified,           \* coord -> number of calls of its on_connect callback
    started,            \* the entry whose callback started last, and whether
                        \* that was in the tick that popped the current helpers
    inserted,           \* number of heappush calls so far
    \* framing (_loop on a byte stream)
    stream,             \* bytes the remote end still has to deliver
    frames,             \* the frames the remote end put in the stream
    inbox,              \* _loop's inbox
    handed,             \* frames given to process_data, in order
    reader              \* "recv", "ended", "dead"

svcVars == <<exit, timeouts, remote_services, on_connected, server>>
mainVars == <<main, helpers, now>>
peerVars == <<peers, connected, socket>>
sockVars == <<sockState, sockPeer, reachable>>
rpcVars == <<pending_requests, request>>
histVars == <<lastFrame, lastOut, notified>>
timerHist == <<started, inserted>>
frameVars == <<stream, frames, inbox, handed, reader>>
vars == <<svcVars, mainVars, peerVars, sockVars, loop, task, rpcVars,
          histVars, timerHist, frameVars>>

NoOut == [kind |-> "none"]
NoStart == [any |-> FALSE, next |-> 0, seconds |-> 0, func |-> 0, plus |-> 0,
            seq |-> 0, sameTick |-> FALSE, raised |-> FALSE]
IdleTask == [pc |-> "idle", peer |-> "", id |-> 0, left |-> 0,
             callback |-> FALSE, encodable |-> TRUE, ret |-> "none"]
NoLoop == [pc |-> "none", on |-> 0, left |-> 0]
\* An RPCRequest: callback (one was given), completed, error; and history:
\* onWire (part of its frame has been sent), calls (of the callback),
\* removed (times it was taken out of the table).
NoRequest == [made |-> FALSE, callback |-> FALSE, completed |-> FALSE,
              error |-> Null, onWire |-> FALSE, calls |-> 0, removed |-> 0]
IdleMain == [pc |-> "init", current |-> 0, sleep |-> 0, todo |-> {}, peer |-> "",
             round |-> 0, critical |-> FALSE]

\* The state after Service.__init__; get_service_address either finds the
\* service's own address (a StreamServer is created) or raises KeyError (no
\* attribute self.server).
InitCommon ==
    /\ exit = FALSE
    /\ timeouts = <<>>
    /\ remote_services = {}
    /\ on_connected = [p \in RegPeers |-> FALSE]
    /\ main = IdleMain
    /\ helpers = <<>>
    /\ peers = {}
    /\ connected = [p \in Peers |-> FALSE]
    /\ socket = [p \in Peers |-> 0]
    /\ sockState = [s \in Socks |-> "free"]
    /\ sockPeer = [s \in Socks |-> ""]
    /\ loop = [s \in Socks |-> NoLoop]
    /\ task = [t \in Tasks |-> IdleTask]
    /\ pending_requests = {}
    /\ request = [i \in ReqIds |-> NoRequest]
    /\ lastFrame = NoFrame
    /\ lastOut = NoOut
    /\ notified = [p \in RegPeers |-> 0]
    /\ started = NoStart
    /\ inserted = 0


\* No byte stream is followed.
NoStream ==
    /\ stream = <<>>
    /\ frames = <<>>
    /\ inbox = <<>>
    /\ handed = <<>>
    /\ reader = "ended"

\* ------------------------------------------------------------ connections
FreeSocks == {s \in Socks : sockState[s] = "free"}
NewSock == CHOOSE s \in FreeSocks : \A u \in FreeSocks : s <= u

\* RemoteService._initialize_channel: the values it leaves in socket,
\* connected and loop (gevent.spawn(self._loop)), given the values before.
InitSocket(sk, p, s) == [sk EXCEPT ![p] = s]
InitConnected(cn, p) == [cn EXCEPT ![p] = TRUE]
InitLoop(lp, s) == [lp EXCEPT ![s] = [pc |-> "recv", on |-> s, left |-> 0]]

\* The outcome of sock.connect(self.address) in connect_remote_service: the
\* dial succeeds exactly when the address is reachable.
DialSucceeds == reachable /\ FreeSocks # {}
DialFails == ~reachable

\* connect_remote_service once sock.connect has returned or raised.
ConnectRemoteService(p) ==
    IF DialSucceeds
    THEN /\ socket' = InitSocket(socket, p, NewSock)
         /\ connected' = InitConnected(connected, p)
         /\ loop' = InitLoop(loop, NewSock)
         /\ sockState' = [sockState EXCEPT ![NewSock] = "open"]
         /\ sockPeer' = [sockPeer EXCEPT ![NewSock] = p]
    ELSE /\ DialFails
         /\ UNCHANGED <<socket, connected, loop, sockState, sockPeer>>

\* Service.connect_to, called while the service is being set up.
ConnectTo(p, cb) ==
    /\ main.pc = "init"
    /\ p \in RegPeers \ remote_services
    /\ remote_services' = remote_services \cup {p}
    /\ on_connected' = [on_connected EXCEPT ![p] = cb]
    /\ peers' = peers \cup {p}
    /\ UNCHANGED <<exit, timeouts, server, mainVars, connected, socket,
                   sockVars, loop, task, rpcVars, histVars, timerHist, frameVars>>

\* Service._connection_handler: the StreamServer accepted a connection.
Accept(p) ==
    /\ server = "started"
    /\ p \in AccPeers \ peers
    /\ FreeSocks # {}
    /\ peers' = peers \cup {p}
    /\ socket' = InitSocket(socket, p, NewSock)
    /\ connected' = InitConnected(connected, p)
    /\ loop' = InitLoop(loop, NewSock)
    /\ sockState' = [sockState EXCEPT ![NewSock] = "open"]
    /\ sockPeer' = [sockPeer EXCEPT ![NewSock] = p]
    /\ UNCHANGED <<svcVars, mainVars, reachable, task, rpcVars, histVars,
                   timerHist, frameVars>>

\* The remote end closes its side of a connection.
RemoteClose(s) ==
    /\ sockState[s] = "open"
    /\ sockState' = [sockState EXCEPT ![s] = "eof"]
    /\ UNCHANGED <<svcVars, mainVars, peerVars, sockPeer, reachable, loop, task,
                   rpcVars, histVars, timerHist, frameVars>>

\* The address of the registered coord becomes (un)reachable.
SetReachable(b) ==
    /\ reachable # b
    /\ reachable' = b
    /\ UNCHANGED <<svcVars, mainVars, peerVars, sockState, sockPeer, loop, task,
                   rpcVars, histVars, timerHist, frameVars>>

\* ---------------------------------------------------------------- pushing
\* One self.socket.send(to_push) of _push_right with `left` units to go.
\* n = 1..left: that many units were taken; 0: send returned 0;
\* -1: send raised.  A send fails only once the remote end has closed.
SendOutcomes(p, left) ==
    (1..left) \cup (IF sockState[socket[p]] = "eof" THEN {0, -1} ELSE {})

\* The value of self.connected after that send.
PushConnected(cn, p, n) == IF n = 0 THEN [cn EXCEPT ![p] = FALSE] ELSE cn

\* What _push_right returns once it returns: "more" while it is still sending.
PushResult(left, n) ==
    IF n <= 0 THEN "False" ELSE IF n = left THEN "True" ELSE "more"

\* -------------------------------------------------------------- RPCRequest
\* RPCRequest.complete(response): mark completed, copy the error, remove the
\* request from the table, call the callback if there is one.
Complete(rq, pend, id, err) ==
    [rq EXCEPT ![id] = [@ EXCEPT !.completed = TRUE,
                                 !.error = err,
                                 !.removed = IF id \in pend THEN @ + 1 ELSE @,
                                 !.calls = IF rq[id].callback THEN @ + 1 ELSE @]]

\* RPCRequest.pre_execute: a fresh id, entered in the table.
FreshIds == {i \in ReqIds : ~request[i].made}
NewId == CHOOSE i \in FreshIds : \A j \in FreshIds : i <= j


\* ------------------------------------------------------------- the read loop
Out(kind, response, invoked) ==
    [kind |-> kind, response |-> response, invoked |-> invoked]
NoResponse == [hasId |-> FALSE, id |-> 0, data |-> "null", error |-> Null]

\* What one process_data(frame) call does, as recorded in lastOut:
\*   dropped     : decode_json failed, or a response without / with an
\*                 unknown __id; a warning is logged
\*   escaped     : an exception left process_data (and so _loop)
\*   reply       : send_reply encoded the response and pushes it
\*   unencodable : send_reply could not encode the response; nothing is sent
\*   completed   : a response completed a pending request
ProcessData(f) ==
    CASE f.kind = "garbage" -> Out("dropped", NoResponse, FALSE)
      [] f.kind = "scalar" -> Out("escaped", NoResponse, FALSE)
      [] f.kind = "request" ->
            LET r == ProcessRequest(f) IN
            IF r.escapes THEN Out("escaped", NoResponse, FALSE)
            ELSE IF Encodable(r.response.data)
            THEN Out("reply", r.response, r.invoked)
            ELSE Out("unencodable", r.response, r.invoked)
      [] f.kind = "response" ->
            IF f.hasId /\ f.id \in pending_requests
            THEN Out("completed", NoResponse, FALSE)
            ELSE Out("dropped", NoResponse, FALSE)

\* Service.quit ran: it calls self.exit().
RanQuit(f, out) == f.kind = "request" /\ f.method = "quit" /\ out.invoked

\* A remote end answers only ids it has seen: a response names no id, an id
\* this process never made, or the id of a request that reached the wire.
Sendable(f) ==
    (f.kind = "response" /\ f.hasId /\ request[f.id].made)
        => request[f.id].onWire

\* _loop: recv returned the bytes of one complete frame, which goes to
\* process_data; a reply is pushed on self.socket from the same greenlet.
LoopRecv(s, f) ==
    /\ loop[s].pc = "recv"
    /\ sockState[loop[s].on] = "open"
    /\ Sendable(f)
    /\ LET p == sockPeer[s]
           out == ProcessData(f)
       IN  /\ lastFrame' = IF f.kind = "request" THEN f ELSE lastFrame
           /\ lastOut' = IF f.kind = "request" THEN out ELSE lastOut
           /\ exit' = (exit \/ RanQuit(f, out))
           /\ loop' = [loop EXCEPT ![s] =
                 CASE out.kind = "escaped" -> [@ EXCEPT !.pc = "dead"]
                   [] out.kind = "reply" -> [@ EXCEPT !.pc = "push", !.left = FrameLen]
                   [] OTHER -> [@ EXCEPT !.on = socket[p]]]
           /\ IF out.kind = "completed"
              THEN /\ request' = Complete(request, pending_requests, f.id, Null)
                   /\ pending_requests' = pending_requests \ {f.id}
              ELSE UNCHANGED rpcVars
    /\ UNCHANGED <<timeouts, remote_services, on_connected, server, mainVars,
                   peerVars, sockVars, task, notified, timerHist, frameVars>>

\* _push_right called by send_reply: one send on self.socket.
LoopSend(s, n) ==
    /\ loop[s].pc = "push"
    /\ LET p == sockPeer[s] IN
       /\ n \in SendOutcomes(p, loop[s].left)
       /\ connected' = PushConnected(connected, p, n)
       /\ loop' = [loop EXCEPT ![s] =
             IF PushResult(loop[s].left, n) = "more"
             THEN [@ EXCEPT !.left = @ - n]
             ELSE [pc |-> "recv", on |-> socket[p], left |-> 0]]
    /\ UNCHANGED <<svcVars, mainVars, peers, socket, sockVars, task, rpcVars,
                   histVars, timerHist, frameVars>>

\* _loop: recv returned b'' (the remote end closed): break.
LoopEof(s) ==
    /\ loop[s].pc = "recv"
    /\ sockState[loop[s].on] = "eof"
    /\ loop' = [loop EXCEPT ![s] = [@ EXCEPT !.pc = "ended"]]
    /\ UNCHANGED <<svcVars, mainVars, peerVars, sockVars, task, rpcVars,
                   histVars, timerHist, frameVars>>


\* ------------------------------------------------------------- execute_rpc
EncodingError == <<"Cannot send request of method ", "m",
                   " because of encoding error.">>
TransferInterrupted == <<"Transfer interrupted">>

TaskReturns(t, v) == [task EXCEPT ![t] = [IdleTask EXCEPT !.ret = v]]

\* execute_rpc from "message = {}" to the first send of _push_right:
\* RPCRequest(...), pre_execute (a fresh id, entered in the table),
\* encode_json, and on ValueError request.complete with the encoding error.
SendRequest(t, p, cb, enc) ==
    LET id == NewId
        made == [request EXCEPT ![id] =
                    [NoRequest EXCEPT !.made = TRUE, !.callback = cb]]
    IN  /\ FreshIds # {}
        /\ IF enc
           THEN /\ request' = made
                /\ pending_requests' = pending_requests \cup {id}
                /\ task' = [task EXCEPT ![t] =
                      [pc |-> "push", peer |-> p, id |-> id, left |-> FrameLen,
                       callback |-> FALSE, encodable |-> TRUE, ret |-> "none"]]
           ELSE /\ request' = Complete(made, pending_requests \cup {id}, id,
                                       EncodingError)
                /\ pending_requests' = pending_requests
                /\ task' = TaskReturns(t, "None")

\* A greenlet calls execute_rpc(method, data, callback, plus) on a registered
\* RemoteService; enc tells whether data can be encoded.  When the peer is
\* not connected the call first dials and is suspended in sock.connect.
ExecuteRpc(t, p, cb, enc) ==
    /\ task[t].pc = "idle"
    /\ p \in remote_services
    /\ FreshIds # {}
    /\ IF connected[p]
       THEN SendRequest(t, p, cb, enc)
       ELSE /\ task' = [task EXCEPT ![t] =
                  [pc |-> "dial", peer |-> p, id |-> 0, left |-> 0,
                   callback |-> cb, encodable |-> enc, ret |-> "none"]]
            /\ UNCHANGED rpcVars
    /\ UNCHANGED <<svcVars, mainVars, peerVars, sockVars, loop, histVars,
                   timerHist, frameVars>>

\* An execute_rpc that makes and registers the RPCRequest before it looks at
\* self.connected after the dial.
TaskDialEndRegisterFirst(t) ==
    /\ task[t].pc = "dial"
    /\ ConnectRemoteService(task[t].peer)
    /\ IF connected'[task[t].peer]
       THEN SendRequest(t, task[t].peer, task[t].callback, task[t].encodable)
       ELSE /\ FreshIds # {}
            /\ request' = [request EXCEPT ![NewId] =
                  [NoRequest EXCEPT !.made = TRUE, !.callback = task[t].callback]]
            /\ pending_requests' = pending_requests \cup {NewId}
            /\ task' = TaskReturns(t, "False")
    /\ UNCHANGED <<svcVars, mainVars, peers, reachable, histVars, timerHist,
                   frameVars>>

\* The inline dial of execute_rpc ends; "if not self.connected: return False".
TaskDialEnd(t) ==
    /\ task[t].pc = "dial"
    /\ ConnectRemoteService(task[t].peer)
    /\ IF connected'[task[t].peer]
       THEN SendRequest(t, task[t].peer, task[t].callback, task[t].encodable)
       ELSE /\ task' = TaskReturns(t, "False")
            /\ UNCHANGED rpcVars
    /\ UNCHANGED <<svcVars, mainVars, peers, reachable, histVars, timerHist,
                   frameVars>>

\* _push_right called by execute_rpc: one send on self.socket; when the push
\* fails the request is completed with "Transfer interrupted".
TaskSend(t, n) ==
    /\ task[t].pc = "push"
    /\ LET p == task[t].peer
           res == PushResult(task[t].left, n)
       IN  /\ n \in SendOutcomes(p, task[t].left)
           /\ connected' = PushConnected(connected, p, n)
           /\ task' = CASE res = "more" -> [task EXCEPT ![t].left = @ - n]
                        [] res = "True" -> TaskReturns(t, "True")
                        [] res = "False" -> TaskReturns(t, "None")
           /\ IF res = "False"
              THEN /\ request' = Complete(request, pending_requests, task[t].id,
                                          TransferInterrupted)
                   /\ pending_requests' = pending_requests \ {task[t].id}
              ELSE /\ request' = [request EXCEPT ![task[t].id].onWire = TRUE]
                   /\ UNCHANGED pending_requests
    /\ UNCHANGED <<svcVars, mainVars, peers, socket, sockVars, loop,
                   histVars, timerHist, frameVars>>


\* ------------------------------------------------------------------ timers
\* One tuple of self._timeouts: (next_timeout, seconds, func, plus).  seq is
\* the number of the heappush that inserted it (history, not compared).
Funcs == 1..2
Plus == {0}        \* 0: plus is None
Entry(next, seconds, func, plus, seq) ==
    [next |-> next, seconds |-> seconds, func |-> func, plus |-> plus,
     seq |-> seq]

\* A comparison by deadline and then by insertion number.
TupleLessBySeq(a, b) ==
    \/ a.next < b.next
    \/ a.next = b.next /\ a.seq < b.seq

\* Python's tuple comparison, which heapq uses: field by field.
TupleLess(a, b) ==
    \/ a.next < b.next
    \/ a.next = b.next /\ a.seconds < b.seconds
    \/ a.next = b.next /\ a.seconds = b.seconds /\ a.func < b.func
    \/ a.next = b.next /\ a.seconds = b.seconds /\ a.func = b.func
         /\ a.plus < b.plus

\* heapq._siftdown(heap, startpos, pos) for the item being placed: it moves
\* up while it is smaller than its parent.  Positions count from 1 here.
RECURSIVE SiftDown(_, _, _, _)
SiftDown(heap, startpos, pos, newitem) ==
    IF pos > startpos /\ TupleLess(newitem, heap[pos \div 2])
    THEN SiftDown([heap EXCEPT ![pos] = heap[pos \div 2]], startpos,
                  pos \div 2, newitem)
    ELSE [heap EXCEPT ![pos] = newitem]

\* heapq._siftup(heap, pos) for the item being placed: the smaller child is
\* bubbled up until a leaf is hit (the right child when the left one is not
\* smaller), then the item is sifted down from there.
RECURSIVE SiftUp(_, _, _)
SiftUp(heap, pos, newitem) ==
    LET childpos == 2 * pos
        rightpos == childpos + 1
        child == IF rightpos <= Len(heap)
                      /\ ~TupleLess(heap[childpos], heap[rightpos])
                 THEN rightpos ELSE childpos
    IN IF childpos <= Len(heap)
       THEN SiftUp([heap EXCEPT ![pos] = heap[child]], child, newitem)
       ELSE SiftDown(heap, 1, pos, newitem)

\* heapq.heappush(heap, item)
HeapPush(heap, item) == SiftDown(Append(heap, item), 1, Len(heap) + 1, item)

\* The heap heapq.heappop(heap) leaves; the item it returns is heap[1].
HeapPop(heap) ==
    IF Len(heap) = 1 THEN <<>>
    ELSE SiftUp(SubSeq(heap, 1, Len(heap) - 1), 1, heap[Len(heap)])

\* A loop of _trigger that also pops the entries due exactly at current.
RECURSIVE PopExpiredInclusive(_, _)
PopExpiredInclusive(heap, current) ==
    IF heap # <<>> /\ current >= heap[1].next
    THEN LET rest == PopExpiredInclusive(HeapPop(heap), current)
         IN [heap |-> rest.heap, popped |-> <<heap[1]>> \o rest.popped]
    ELSE [heap |-> heap, popped |-> <<>>]

\* The loop of _trigger: "while self._timeouts != []", the top entry is
\* popped "if current > next_timeout", else the loop breaks.  popped is the
\* sequence of the entries in the order a helper is spawned for them.
RECURSIVE PopExpired(_, _)
PopExpired(heap, current) ==
    IF heap # <<>> /\ current > heap[1].next
    THEN LET rest == PopExpired(HeapPop(heap), current)
         IN [heap |-> rest.heap, popped |-> <<heap[1]>> \o rest.popped]
    ELSE [heap |-> heap, popped |-> <<>>]

Min2(a, b) == IF a <= b THEN a ELSE b
Max2(a, b) == IF a >= b THEN a ELSE b

\* The value _trigger returns: max(0.0, min(maximum, _timeouts[0][0] - current))
NextTimeout(ts, current, cap) ==
    IF ts = <<>> THEN Max2(0, cap)
    ELSE Max2(0, Min2(cap, ts[1].next - current))

\* Service.add_timeout, called by any greenlet.
AddTimeout(func, plus, seconds, immediately) ==
    /\ inserted < MaxIns
    /\ main.pc = "init"
    /\ timeouts' = HeapPush(timeouts,
                           Entry(IF immediately THEN now ELSE now + seconds,
                                 seconds, func, plus, inserted + 1))
    /\ inserted' = inserted + 1
    /\ UNCHANGED <<exit, remote_services, on_connected, server, mainVars,
                   peerVars, sockVars, loop, task, rpcVars, histVars, started,
                   frameVars>>

\* A helper that re-arms the entry one period after the current time.
HelperRunFromNow(ret) ==
    /\ helpers # <<>>
    /\ ret => inserted < MaxIns
    /\ LET e == Head(helpers) IN
       /\ helpers' = Tail(helpers)
       /\ started' = [any |-> TRUE, next |-> e.next, seconds |-> e.seconds,
                       func |-> e.func, plus |-> e.plus, seq |-> e.seq,
                       sameTick |-> TRUE, raised |-> FALSE]
       /\ IF ret
          THEN /\ timeouts' = HeapPush(timeouts,
                           Entry(now + e.seconds, e.seconds, e.func,
                                 e.plus, inserted + 1))
               /\ inserted' = inserted + 1
          ELSE UNCHANGED <<timeouts, inserted>>
    /\ UNCHANGED <<exit, remote_services, on_connected, server, main, now,
                   peerVars, sockVars, loop, task, rpcVars, histVars, frameVars>>

\* The greenlet _trigger spawned for a popped entry runs helper(timeout_data):
\* it calls func and, when func returns a true value, pushes the entry again
\* with next_timeout + seconds.  Spawned greenlets start in spawn order.
HelperRun(ret) ==
    /\ helpers # <<>>
    /\ ret => inserted < MaxIns
    /\ LET e == Head(helpers) IN
       /\ helpers' = Tail(helpers)
       /\ started' = [any |-> TRUE, next |-> e.next, seconds |-> e.seconds,
                       func |-> e.func, plus |-> e.plus, seq |-> e.seq,
                       sameTick |-> TRUE, raised |-> FALSE]
       /\ IF ret
          THEN /\ timeouts' = HeapPush(timeouts,
                           Entry(e.next + e.seconds, e.seconds, e.func,
                                 e.plus, inserted + 1))
               /\ inserted' = inserted + 1
          ELSE UNCHANGED <<timeouts, inserted>>
    /\ UNCHANGED <<exit, remote_services, on_connected, server, main, now,
                   peerVars, sockVars, loop, task, rpcVars, histVars, frameVars>>

\* helper(timeout_data) when func raises an Exception: the exception leaves
\* helper before the test of ret, so nothing is pushed, and ends the
\* greenlet gevent.spawn made for it.
HelperRaise ==
    /\ helpers # <<>>
    /\ LET e == Head(helpers) IN
       /\ helpers' = Tail(helpers)
       /\ started' = [any |-> TRUE, next |-> e.next, seconds |-> e.seconds,
                       func |-> e.func, plus |-> e.plus, seq |-> e.seq,
                       sameTick |-> TRUE, raised |-> TRUE]
    /\ UNCHANGED <<svcVars, main, now, peerVars, sockVars, loop, task, rpcVars,
                   histVars, inserted, frameVars>>

\* --------------------------------------------------------------- main loop
\* round is the parity of the number of iterations of the loop of run().
MainAt(pc, current, sleep, todo, peer, round) ==
    [pc |-> pc, current |-> current, sleep |-> sleep, todo |-> todo,
     peer |-> peer, round |-> round, critical |-> FALSE]

\* _trigger after "current = time.time()": _reconnect visits the registered
\* services still to do; at the first one found disconnected it dials and is
\* suspended in sock.connect.  With none left to dial, the expired entries
\* are popped, a helper greenlet is spawned for each, and run() goes to
\* gevent.sleep(next_timeout).  cn is the value of connected to look at.
ContinueTick(current, todo, cn, round) ==
    IF \E p \in todo : ~cn[p]
    THEN /\ \E p \in todo :
              /\ ~cn[p]
              /\ main' = MainAt("dial", current, 0, todo \ {p}, p, round)
         /\ UNCHANGED <<timeouts, helpers, started>>
    ELSE LET r == PopExpired(timeouts, current) IN
         /\ helpers' = helpers \o r.popped
         /\ started' = [started EXCEPT !.sameTick = FALSE]
         /\ timeouts' = r.heap
         /\ main' = MainAt("sleep", current,
                           NextTimeout(r.heap, current, maximum), {}, "", round)

\* A loop of run() that never looks at self._exit.
IterateNoExitTest(t, cn) ==
    /\ ContinueTick(t, remote_services, cn, 1 - main.round)
    /\ server' = "started"

\* "while not self._exit": either leave the loop, stop the server and return,
\* or run _trigger with the time t it reads.
Iterate(t, cn) ==
    IF exit
    THEN /\ main' = MainAt("returned", main.current, 0, {}, "", main.round)
         /\ server' = "stopped"
         /\ UNCHANGED <<timeouts, helpers, started>>
    ELSE /\ ContinueTick(t, remote_services, cn, 1 - main.round)
         /\ server' = "started"

\* Service.run is called: self.server.start(), then the loop.  Without the
\* attribute self.server the call raises AttributeError.
RunStart ==
    /\ main.pc = "init"
    /\ IF server = "absent"
       THEN /\ main' = MainAt("raised", 0, 0, {}, "", 0)
            /\ UNCHANGED <<server, timeouts, helpers, started>>
       ELSE Iterate(now, connected)
    /\ UNCHANGED <<exit, remote_services, on_connected, now, peerVars,
                   sockVars, loop, task, rpcVars, histVars, inserted, frameVars>>

\* gevent.sleep(next_timeout) returns, after the greenlets spawned before it
\* have run; the loop goes round.  Past MaxTime the clock is followed only
\* while no timer is registered.
Wake(late) ==
    /\ main.pc = "sleep"
    /\ helpers = <<>>
    /\ late \in 0..MaxJitter
    /\ now + main.sleep + late <= MaxTime \/ timeouts = <<>>
    /\ now' = Min2(now + main.sleep + late, MaxTime)
    /\ Iterate(now', connected)
    /\ UNCHANGED <<exit, remote_services, on_connected, peerVars, sockVars,
                   loop, task, rpcVars, histVars, inserted, frameVars>>

\* The dial of _reconnect ends; "if remote_service.connected and
\* on_remote_service_connected[service] is not None" the callback is called;
\* then the sweep goes on.
SweepDialEnd ==
    /\ main.pc = "dial"
    /\ ConnectRemoteService(main.peer)
    /\ notified' = [notified EXCEPT ![main.peer] =
          IF connected'[main.peer] /\ on_connected[main.peer] THEN @ + 1 ELSE @]
    /\ ContinueTick(main.current, main.todo, connected', main.round)
    /\ UNCHANGED <<exit, remote_services, on_connected, server, now, peers,
                   reachable, task, rpcVars, lastFrame, lastOut, inserted,
                   frameVars>>

\* A _reconnect that calls the on_connect callback inside its "try: ...
\* except: pass", so that the tick goes on after the callback raised.
SweepDialEndSwallowed ==
    /\ main.pc = "dial"
    /\ ConnectRemoteService(main.peer)
    /\ connected'[main.peer]
    /\ on_connected[main.peer]
    /\ notified' = [notified EXCEPT ![main.peer] = @ + 1]
    /\ ContinueTick(main.current, main.todo, connected', main.round)
    /\ UNCHANGED <<exit, remote_services, on_connected, server, now, peers,
                   reachable, task, rpcVars, lastFrame, lastOut, inserted,
                   frameVars>>

\* The dial of _reconnect ends with the peer connected and the on_connect
\* callback raises an Exception: the call (line 162) is outside the try of
\* _reconnect, so the exception leaves _reconnect and _trigger and reaches
\* "except Exception" of run(), which logs at critical level; then
\* self.server.stop() and run() returns.
SweepDialEndRaise ==
    /\ main.pc = "dial"
    /\ ConnectRemoteService(main.peer)
    /\ connected'[main.peer]
    /\ on_connected[main.peer]
    /\ notified' = [notified EXCEPT ![main.peer] = @ + 1]
    /\ main' = [MainAt("returned", main.current, 0, {}, "", main.round)
                   EXCEPT !.critical = TRUE]
    /\ server' = "stopped"
    /\ UNCHANGED <<exit, timeouts, remote_services, on_connected, helpers, now,
                   peers, reachable, task, rpcVars, lastFrame, lastOut,
                   timerHist, frameVars>>

\* Service.exit: the SIGINT handler, or any greenlet, asks the loop to stop.
Exit ==
    /\ ~exit
    /\ exit' = TRUE
    /\ UNCHANGED <<timeouts, remote_services, on_connected, server, mainVars,
                   peerVars, sockVars, loop, task, rpcVars, histVars, timerHist,
                   frameVars>>


\* ----------------------------------------------------------------- framing
\* The bytes of a stream: "a" is a byte no JSON text starts with, "5" is the
\* JSON text of a number.
CR == "\\r"
LF == "\\n"
Bytes == {"a", "5", CR, LF}

SeqsUpTo(S, n) == UNION { [1..k -> S] : k \in 0..n }
HasTerminator(b) == \E i \in 1..(Len(b) - 1) : b[i] = CR /\ b[i + 1] = LF
\* Frame bodies and trailing fragments: byte strings without CR LF.
Bodies == { b \in SeqsUpTo(Bytes, MaxFrameLen) : ~HasTerminator(b) }

\* F1 CRLF F2 CRLF ... Fn CRLF
RECURSIVE Wire(_)
Wire(fs) == IF fs = <<>> THEN <<>> ELSE Head(fs) \o <<CR, LF>> \o Wire(Tail(fs))

\* (inbox + buf).split('\r\n'): the segments between the occurrences of
\* CR LF found from left to right; cur is the segment being collected.
RECURSIVE Split(_, _)
Split(bytes, cur) ==
    IF bytes = <<>> THEN <<cur>>
    ELSE IF Len(bytes) >= 2 /\ bytes[1] = CR /\ bytes[2] = LF
    THEN <<cur>> \o Split(SubSeq(bytes, 3, Len(bytes)), <<>>)
    ELSE Split(Tail(bytes), Append(cur, bytes[1]))

\* decode_json on the bodies of this alphabet: "5" is a number, every other
\* body is rejected.
Decode(body) == IF body = <<"5">> THEN Scalar ELSE Garbage

\* "for data in splits[:-1]: self.process_data(data)": the segments are
\* handed over in order until process_data raises; done are the ones handed
\* over so far.
RECURSIVE HandOver(_, _)
HandOver(segs, done) ==
    IF segs = <<>> THEN [handed |-> done, raised |-> FALSE]
    ELSE IF ProcessData(Decode(Head(segs))).kind = "escaped"
    THEN [handed |-> Append(done, Head(segs)), raised |-> TRUE]
    ELSE HandOver(Tail(segs), Append(done, Head(segs)))

\* One iteration of the loop of _loop with buf the value of recv.
LoopIteration(buf) ==
    LET splits == Split(inbox \o buf, <<>>)
        r == HandOver(SubSeq(splits, 1, Len(splits) - 1), handed)
    IN  /\ inbox' = splits[Len(splits)]
        /\ handed' = r.handed
        /\ reader' = IF r.raised THEN "dead"
                      ELSE IF buf = <<>> THEN "ended" ELSE "recv"

\* recv returns the next n bytes of the stream.
Recv(n) ==
    /\ reader = "recv"
    /\ n \in 1..Len(stream)
    /\ LoopIteration(SubSeq(stream, 1, n))
    /\ stream' = SubSeq(stream, n + 1, Len(stream))
    /\ UNCHANGED <<svcVars, mainVars, peerVars, sockVars, loop, task, rpcVars,
                   histVars, timerHist, frames>>

\* The stream is over: recv returns b''.
RecvEof ==
    /\ reader = "recv"
    /\ stream = <<>>
    /\ LoopIteration(<<>>)
    /\ UNCHANGED <<svcVars, mainVars, peerVars, sockVars, loop, task, rpcVars,
                   histVars, timerHist, frames, stream>>

\* ---------------------------------------------------------- specifications
\* The frames followed on the connections of Spec: every response, one
\* request that is answered, one frame that process_data cannot handle.
CoreFrames ==
    Responses \cup {Frame("request", "echo", "good", 0), Garbage, Scalar}

\* The connection life cycle and the outbound RPC path of a registered
\* peer.  No timer is registered, so the clock is not followed: it starts
\* past MaxTime.
Init ==
    /\ InitCommon
    /\ server = "created"
    /\ now = MaxTime
    /\ reachable \in BOOLEAN
    /\ NoStream

Next ==
    \/ \E p \in RegPeers, cb \in BOOLEAN : ConnectTo(p, cb)
    \/ \E s \in Socks : RemoteClose(s)
    \/ \E b \in BOOLEAN : SetReachable(b)
    \/ \E s \in Socks, f \in CoreFrames : LoopRecv(s, f)
    \/ \E s \in Socks, n \in -1..FrameLen : LoopSend(s, n)
    \/ \E s \in Socks : LoopEof(s)
    \/ \E t \in Tasks, p \in RegPeers, cb, enc \in BOOLEAN : ExecuteRpc(t, p, cb, enc)
    \/ \E t \in Tasks : TaskDialEnd(t)
    \/ \E t \in Tasks, n \in -1..FrameLen : TaskSend(t, n)
    \/ RunStart
    \/ \E late \in 0..MaxJitter : Wake(late)
    \/ SweepDialEnd

Spec == Init /\ [][Next]_vars


\* The scheduler: timers registered with add_timeout, the ticks of run(),
\* the helper greenlets; no peer is registered.
TimerInit ==
    /\ InitCommon
    /\ server = "created"
    /\ now = 0
    /\ reachable = FALSE
    /\ NoStream

TimerNext ==
    \/ \E f \in Funcs, x \in Plus, d \in 1..MaxPeriod, i \in BOOLEAN :
          AddTimeout(f, x, d, i)
    \/ \E ret \in BOOLEAN : HelperRun(ret)
    \/ RunStart
    \/ \E late \in 0..MaxJitter : Wake(late)

TimerSpec == TimerInit /\ [][TimerNext]_vars

\* A registered peer with a reachable address under a fairly scheduled
\* main loop and read loop; no greenlet calls execute_rpc.
FairInit ==
    /\ InitCommon
    /\ server = "created"
    /\ now = MaxTime
    /\ reachable = TRUE
    /\ NoStream

FairNext ==
    \/ \E p \in RegPeers, cb \in BOOLEAN : ConnectTo(p, cb)
    \/ \E s \in Socks : RemoteClose(s)
    \/ \E s \in Socks : LoopRecv(s, Frame("request", "echo", "good", 0))
    \/ \E s \in Socks, n \in -1..FrameLen : LoopSend(s, n)
    \/ \E s \in Socks : LoopEof(s)
    \/ RunStart
    \/ \E late \in 0..MaxJitter : Wake(late)
    \/ SweepDialEnd

FairSpec ==
    /\ FairInit
    /\ [][FairNext]_vars
    /\ WF_vars(RunStart)
    /\ WF_vars(\E late \in 0..MaxJitter : Wake(late))
    /\ WF_vars(SweepDialEnd)
    /\ WF_vars(\E s \in Socks : LoopEof(s))

\* The dispatcher: a running service accepts a connection and handles the
\* frames a remote end sends on it.
DispatchInit ==
    /\ InitCommon
    /\ server = "created"
    /\ now = MaxTime
    /\ reachable = FALSE
    /\ NoStream

DispatchNext ==
    \/ AddTimeout(1, 0, 1, FALSE)
    \/ RunStart
    \/ \E late \in 0..MaxJitter : Wake(late)
    \/ \E p \in AccPeers : Accept(p)
    \/ \E s \in Socks : RemoteClose(s)
    \/ \E s \in Socks, f \in Frames : LoopRecv(s, f)
    \/ \E s \in Socks, n \in -1..FrameLen : LoopSend(s, n)
    \/ \E s \in Socks : LoopEof(s)

DispatchSpec == DispatchInit /\ [][DispatchNext]_vars

\* Framing: the remote end sends frames and maybe an unterminated fragment,
\* the read loop receives the bytes in chunks of any size.
FrameInit ==
    /\ InitCommon
    /\ server = "created"
    /\ now = MaxTime
    /\ reachable = FALSE
    /\ frames \in SeqsUpTo(Bodies, MaxFrames)
    /\ \E fragment \in Bodies : stream = Wire(frames) \o fragment
    /\ inbox = <<>>
    /\ handed = <<>>
    /\ reader = "recv"

FrameNext ==
    \/ \E n \in 1..(MaxFrames * (MaxFrameLen + 2) + MaxFrameLen) : Recv(n)
    \/ RecvEof

FrameSpec == FrameInit /\ [][FrameNext]_vars

\* The life of run(): the constructor did or did not resolve the service's
\* own address (self.server exists or not); peers are registered, run() is
\* called, connections are accepted, and the exit flag is set by exit() (the
\* SIGINT handler calls it) or by an inbound quit request.
QuitRequest == Frame("request", "quit", "good", 0)

\* _loop of a RemoteService made by _connection_handler receives frame f.
AcceptedRecv(s, f) ==
    /\ sockPeer[s] \in AccPeers
    /\ LoopRecv(s, f)

LifeInit ==
    /\ InitCommon
    /\ server \in {"absent", "created"}
    /\ now = MaxTime
    /\ reachable \in BOOLEAN
    /\ NoStream

LifeNext ==
    \/ \E p \in RegPeers, cb \in BOOLEAN : ConnectTo(p, cb)
    \/ RunStart
    \/ \E late \in 0..MaxJitter : Wake(late)
    \/ SweepDialEnd
    \/ Exit
    \/ \E p \in AccPeers : Accept(p)
    \/ \E s \in Socks : RemoteClose(s)
    \/ \E s \in Socks : AcceptedRecv(s, QuitRequest)
    \/ \E s \in Socks, n \in -1..FrameLen : LoopSend(s, n)
    \/ \E s \in Socks : LoopEof(s)

LifeSpec ==
    /\ LifeInit
    /\ [][LifeNext]_vars
    /\ WF_vars(RunStart)
    /\ WF_vars(\E late \in 0..MaxJitter : Wake(late))
    /\ WF_vars(SweepDialEnd)

\* The inline dial of execute_rpc next to the reconnect sweep, on a peer
\* whose address comes and goes; the remote end sends nothing.
DialInit ==
    /\ InitCommon
    /\ server = "created"
    /\ now = MaxTime
    /\ reachable \in BOOLEAN
    /\ NoStream

DialNext ==
    \/ \E p \in RegPeers, cb \in BOOLEAN : ConnectTo(p, cb)
    \/ \E b \in BOOLEAN : SetReachable(b)
    \/ \E s \in Socks : RemoteClose(s)
    \/ \E t \in Tasks, p \in RegPeers, cb, enc \in BOOLEAN : ExecuteRpc(t, p, cb, enc)
    \/ \E t \in Tasks : TaskDialEnd(t)
    \/ \E t \in Tasks, n \in -1..FrameLen : TaskSend(t, n)
    \/ RunStart
    \/ \E late \in 0..MaxJitter : Wake(late)
    \/ SweepDialEnd

DialSpec == DialInit /\ [][DialNext]_vars

\* Requests sent to a registered peer whose remote end answers or closes the
\* connection as it likes; the main loop, the read loops and the callers of
\* execute_rpc are scheduled fairly.
DropInit ==
    /\ InitCommon
    /\ server = "created"
    /\ now = MaxTime
    /\ reachable = TRUE
    /\ NoStream

DropNext ==
    \/ \E p \in RegPeers, cb \in BOOLEAN : ConnectTo(p, cb)
    \/ \E s \in Socks : RemoteClose(s)
    \/ \E t \in Tasks, p \in RegPeers, cb, enc \in BOOLEAN : ExecuteRpc(t, p, cb, enc)
    \/ \E t \in Tasks : TaskDialEnd(t)
    \/ \E t \in Tasks, n \in -1..FrameLen : TaskSend(t, n)
    \/ \E s \in Socks, i \in ReqIds : LoopRecv(s, Frame("response", "", "good", i))
    \/ \E s \in Socks : LoopEof(s)
    \/ RunStart
    \/ \E late \in 0..MaxJitter : Wake(late)
    \/ SweepDialEnd

DropSpec ==
    /\ DropInit
    /\ [][DropNext]_vars
    /\ WF_vars(RunStart)
    /\ WF_vars(\E late \in 0..MaxJitter : Wake(late))
    /\ WF_vars(SweepDialEnd)
    /\ WF_vars(\E s \in Socks : LoopEof(s))
    /\ WF_vars(\E t \in Tasks : TaskDialEnd(t))
    /\ WF_vars(\E t \in Tasks, n \in -1..FrameLen : TaskSend(t, n))

\* Timers and a registered peer with a reachable address whose callbacks
\* may raise: a timer callback returns a value or raises, the on_connect
\* callback returns or raises.
RaiseInit ==
    /\ InitCommon
    /\ server = "created"
    /\ now = 0
    /\ reachable = TRUE
    /\ NoStream

RaiseNext ==
    \/ \E p \in RegPeers, cb \in BOOLEAN : ConnectTo(p, cb)
    \/ \E d \in 1..MaxPeriod, i \in BOOLEAN : AddTimeout(1, 0, d, i)
    \/ \E ret \in BOOLEAN : HelperRun(ret)
    \/ HelperRaise
    \/ RunStart
    \/ \E late \in 0..MaxJitter : Wake(late)
    \/ SweepDialEnd
    \/ SweepDialEndRaise

RaiseSpec == RaiseInit /\ [][RaiseNext]_vars

\* ------------------------------------------------------------------ claims
\* The RemoteService has a read loop that has not terminated.
LoopRunning(p) ==
    \E s \in Socks : sockPeer[s] = p /\ loop[s].pc \in {"recv", "push"}

\* The read loop on the socket the RemoteService holds ended on a zero-byte
\* read.
Dropped(p) ==
    \E s \in Socks : socket[p] = s /\ sockPeer[s] = p /\ loop[s].pc = "ended"

\* C1: a peer registered with connect_to whose connection the remote side
\* closed (the read loop saw the zero-byte read), and whose address stays
\* reachable, is eventually dialled again by the reconnect sweep of the
\* fairly scheduled main loop and gets a new connection, without any call
\* of execute_rpc.
C1_RedialledAfterRemoteClose ==
    \A p \in RegPeers :
        [](( /\ p \in remote_services
             /\ Dropped(p)
             /\ reachable
             /\ FreeSocks # {} ) => <>(LoopRunning(p) \/ ~reachable))

\* C2: for every peer, connected is true exactly when the peer owns a live
\* connection (a socket whose read loop is running); once the read loop has
\* terminated on a zero-byte read, connected is false.
C2_ConnectedIffLive ==
    \A p \in peers : connected[p] <=> LoopRunning(p)

\* C3: whenever _push_right fails (send returned 0, or send raised) the
\* peer's connected flag is false afterwards, and inside execute_rpc the
\* pending request is completed with the error "Transfer interrupted".
C3_PushFailureDisconnects ==
    [][ /\ \A t \in Tasks, n \in {0, -1} :
              TaskSend(t, n) =>
                 /\ ~connected'[task[t].peer]
                 /\ task'[t].ret = "None"
                 /\ request'[task[t].id].completed
                 /\ request'[task[t].id].error = TransferInterrupted
        /\ \A s \in Socks, n \in {0, -1} :
              LoopSend(s, n) => ~connected'[sockPeer[s]]
      ]_vars

\* C4: over every interleaving of the terminal paths (matching response,
\* repeated response, encode error, push failure) the callback of a request
\* is called exactly once when the request reaches a terminal path and never
\* more than once, and the request leaves the pending table exactly once.
C4_CallbackExactlyOnce ==
    \A i \in ReqIds :
        /\ request[i].calls <= 1
        /\ request[i].removed <= 1
        /\ request[i].completed =>
              /\ request[i].removed = 1
              /\ request[i].callback => request[i].calls = 1

\* C5: for a request naming an attribute of the service that lacks
\* rpc_callable, the method is never called and the response's __error starts
\* with "AuthorizationError: Method ", whatever its threaded attribute and
\* whether or not __data is present.
C5_NotExposedIsAuthorizationError ==
    ( /\ lastFrame.kind = "request"
      /\ lastFrame.method \in Attrs
      /\ ~RpcCallable(lastFrame.method) ) =>
        /\ lastOut.kind = "reply"
        /\ ~lastOut.invoked
        /\ StartsWith(lastOut.response.error,
                      <<"AuthorizationError", ": ", "Method ">>)

\* C6: handling a request whose __method is a name that is no attribute of
\* the service leaves the state of the Service unchanged (timer heap, peer
\* map, on-connect map, exit flag) and pushes one response whose __error
\* starts with "KeyError: Service has no method ", whose __data is null and
\* whose __id is the request's.
C6_UnknownMethodResponse ==
    [][ \A s \in Socks, f \in Requests :
          (f.method \notin Attrs /\ IsString(f.method) /\ LoopRecv(s, f)) =>
             /\ UNCHANGED svcVars
             /\ loop'[s].pc = "push"
             /\ lastOut'.kind = "reply"
             /\ StartsWith(lastOut'.response.error,
                           <<"KeyError", ": ", "Service has no method ">>)
             /\ lastOut'.response.data = "null"
             /\ lastOut'.response.hasId = f.hasId
             /\ lastOut'.response.id = f.id ]_vars

\* C7: every decoded frame with __method gets exactly one response encoded
\* for its connection, unless the handler result cannot be encoded (then
\* none); the response has __id exactly when the request has, with the same
\* value; on success __error is null and __data is the handler result, on a
\* dispatch failure __error is not null and __data is null.
C7_OneResponsePerRequest ==
    lastFrame.kind = "request" =>
        /\ \/ lastOut.kind = "reply"
           \/ lastOut.kind = "unencodable" /\ lastOut.invoked
        /\ lastOut.response.hasId = lastFrame.hasId
        /\ lastOut.response.id = lastFrame.id
        /\ lastOut.response.error = Null =>
              /\ lastOut.invoked
              /\ lastOut.response.data =
                     CallMethod(lastFrame.method, lastFrame.data).val
        /\ lastOut.response.error # Null => lastOut.response.data = "null"

\* C8: for frames F1..Fn without the terminator, the stream F1 CRLF ... Fn
\* CRLF, maybe followed by an unterminated fragment, received in chunks cut
\* anywhere and ended by a zero-byte read, makes the read loop hand exactly
\* F1..Fn to process_data, in order, each once; the fragment is never handed
\* over.
C8_FramingRoundTrip ==
    /\ Len(handed) <= Len(frames)
    /\ \A i \in 1..Len(handed) : handed[i] = frames[i]
    /\ reader # "recv" => handed = frames

\* C9 (as stated): timer callbacks are started in non-decreasing
\* next_fire_time order, and two entries with the same next_fire_time are
\* started in the order of their insertion.
C9_InsertionOrderTies ==
    [][ \A ret \in BOOLEAN : (HelperRun(ret) /\ started.any) =>
           /\ started.next <= Head(helpers).next
           /\ started.next = Head(helpers).next =>
                  started.seq < Head(helpers).seq ]_vars

\* C9 (amended): the callbacks one tick starts are started in non-decreasing
\* next_fire_time order, and of two of them with the same next_fire_time the
\* one with the smaller period is started first, whatever the order of
\* insertion.
C9_TickTupleOrder ==
    [][ \A ret \in BOOLEAN :
          (HelperRun(ret) /\ started.any /\ started.sameTick) =>
             /\ started.next <= Head(helpers).next
             /\ started.next = Head(helpers).next =>
                    started.seconds <= Head(helpers).seconds ]_vars

\* C9 witness: in one tick a callback has started and the next one to start
\* has the same next_fire_time and a longer period, but was inserted earlier.
C9_TieAgainstInsertion ==
    /\ started.any
    /\ started.sameTick
    /\ helpers # <<>>
    /\ Head(helpers).next = started.next
    /\ Head(helpers).seconds > started.seconds
    /\ Head(helpers).seq < started.seq

\* C10 (as stated): the main loop never sleeps past the deadline of a timer
\* that has been re-armed: once the helpers of a tick have run, the sleep of
\* run() ends no later than the deadline of any entry of the heap (or at once
\* when that deadline has passed).
C10_NoSleepPastDeadline ==
    (main.pc = "sleep" /\ helpers = <<>>) =>
        \A i \in DOMAIN timeouts :
            main.current + main.sleep <= Max2(timeouts[i].next, main.current)

\* C11: for a peer registered with a non-null on_connect callback, the
\* callback is invoked exactly once at each transition of the peer from
\* disconnected to connected, whether the reconnect sweep or the inline dial
\* of execute_rpc made the connection, and never at any other step.
C11_OnConnectOncePerTransition ==
    [][ \A p \in RegPeers :
          (p \in remote_services /\ on_connected[p]) =>
             notified'[p] = notified[p] +
                (IF ~connected[p] /\ connected'[p] THEN 1 ELSE 0) ]_vars

\* The open sockets a RemoteService was given, and its read loops that have
\* not terminated.
SocketsInUse(p) == {s \in Socks : sockPeer[s] = p /\ sockState[s] = "open"}
RunningLoops(p) ==
    {s \in Socks : sockPeer[s] = p /\ loop[s].pc \in {"recv", "push"}}

\* C12: in every reachable state each peer has at most one socket in use and
\* at most one running read loop: connecting a peer that is connected, or
\* that another task is dialling at the same time, installs no second socket
\* and starts no second read loop.
C12_OneSocketOneLoop ==
    \A p \in Peers :
        /\ Cardinality(SocketsInUse(p)) <= 1
        /\ Cardinality(RunningLoops(p)) <= 1

\* execute_rpc in task t, or send_reply in the read loop started on socket s,
\* has written a part of its frame to the socket of peer p and not the rest.
TaskMidFrame(t, p) ==
    task[t].pc = "push" /\ task[t].peer = p /\ task[t].left < FrameLen
LoopMidFrame(s, p) ==
    loop[s].pc = "push" /\ sockPeer[s] = p /\ loop[s].left < FrameLen

\* C13: the bytes written to the socket of a peer are a concatenation of
\* whole frames: when two greenlets push on the same peer and a send is
\* partial, no byte of another frame is written before the rest of the frame
\* that was begun.
C13_FramesNotInterleaved ==
    [][ \A t \in Tasks, s \in Socks :
          /\ (\E n \in 1..FrameLen : TaskSend(t, n)) =>
                 ~LoopMidFrame(s, task[t].peer)
          /\ (\E n \in 1..FrameLen : LoopSend(s, n)) =>
                 ~TaskMidFrame(t, sockPeer[s]) ]_vars

\* C14: a Service whose own coord the directory could not resolve still
\* starts: run() enters the main loop without a listener and, on exit,
\* returns without raising.
C14_RunsWithoutListener ==
    server = "absent" => main.pc \in {"init", "dial", "sleep", "returned"}

\* C15: once the exit flag is set while run() is in its loop, the flag stays
\* set, the tick in progress completes, the next loop test starts no further
\* tick, stops the server and makes run() return; under fair scheduling of
\* the main loop run() does return.
C15_ExitStopsTheLoop ==
    /\ [][exit => exit']_vars
    /\ [][ (exit /\ \E late \in 0..MaxJitter : Wake(late)) =>
              (main'.pc = "returned" /\ server' = "stopped") ]_vars
    /\ [][ main.pc = "returned" =>
              (main'.pc = "returned" /\ server' = "stopped") ]_vars
    /\ (exit /\ main.pc \in {"dial", "sleep"}) ~> (main.pc = "returned")

\* C15 witness: run() has returned after an exit request that came while the
\* loop was running with a registered peer connected by the sweep.
C15_ReturnedAfterExit ==
    /\ main.pc = "returned"
    /\ exit
    /\ server = "stopped"
    /\ \E p \in remote_services : connected[p]

\* C16: no inbound frame ends the read loop of its connection: undecodable
\* bytes, a JSON value that is no object, a request whose __method is no
\* string and a response without or with an unknown __id are each answered
\* with an __error response or dropped, and the loop goes on to the frames
\* that follow; it ends only on a zero-byte read.
C16_NoFrameEndsTheLoop ==
    [][ \A s \in Socks, f \in Frames :
          LoopRecv(s, f) =>
             /\ loop'[s].pc \in {"recv", "push"}
             /\ ( \/ f.kind \in {"garbage", "scalar", "response"}
                  \/ ~IsString(f.method) ) =>
                    \/ loop'[s].pc = "recv"
                    \/ lastOut'.response.error # Null ]_vars

\* A step of run() that goes through the pop loop of _trigger.
TickStep == (RunStart \/ \E late \in 0..MaxJitter : Wake(late)) /\ main'.pc = "sleep"
\* The entries of a list.
Range(q) == {q[i] : i \in DOMAIN q}

\* C17 (as stated): in each tick, with now the time taken at its start, every
\* entry with next_fire_time <= now (equal included) is popped and a task is
\* spawned for it, and no entry with next_fire_time > now is popped.
C17_PopsDueIncludingEqual ==
    [][ TickStep =>
          \A e \in Range(timeouts) :
             IF e.next <= main'.current
             THEN e \in Range(helpers') /\ e \notin Range(timeouts')
             ELSE e \in Range(timeouts') /\ e \notin Range(helpers') ]_vars

\* C17 (amended): in each tick every entry with next_fire_time < now is
\* popped and a task is spawned for it, and no entry with next_fire_time >=
\* now is popped: an entry due exactly at now waits for the next tick.
C17_PopsStrictlyPast ==
    [][ TickStep =>
          \A e \in Range(timeouts) :
             IF e.next < main'.current
             THEN e \in Range(helpers') /\ e \notin Range(timeouts')
             ELSE e \in Range(timeouts') /\ e \notin Range(helpers') ]_vars

\* C17 witness: a tick has popped an entry and left in the heap an entry due
\* exactly at the time the tick took (no helper has run since).
C17_EqualEntryLeft ==
    /\ main.pc = "sleep"
    /\ helpers # <<>>
    /\ Len(helpers) + Len(timeouts) = inserted
    /\ \E e \in Range(timeouts) : e.next = main.current

\* The insertion numbers of the entries of a list.
Seqs(q) == {q[i].seq : i \in DOMAIN q}

\* C18: when the callback of a fired timer returns a true value the entry is
\* inserted again exactly once, with its previous next_fire_time plus its
\* period (not the current time plus the period) and the same period,
\* function and context; when it returns a false value nothing is inserted,
\* and an entry that has fired is never seen again.
C18_RearmFromPreviousDeadline ==
    /\ [][ \A ret \in BOOLEAN : HelperRun(ret) =>
              LET e == Head(helpers) IN
              IF ret
              THEN /\ Len(timeouts') = Len(timeouts) + 1
                   /\ Range(timeouts') = Range(timeouts) \cup
                         {Entry(e.next + e.seconds, e.seconds, e.func, e.plus,
                                inserted')}
                   /\ inserted' \notin Seqs(timeouts)
              ELSE timeouts' = timeouts ]_vars
    /\ [][ \A k \in 1..inserted :
              k \notin (Seqs(timeouts) \cup Seqs(helpers)) =>
                 k \notin (Seqs(timeouts') \cup Seqs(helpers')) ]_vars

\* C18 witness: a callback returned a true value in a late tick and its
\* entry is in the heap again, one period after its previous deadline, which
\* is before the current time.
C18_RearmedInThePast ==
    /\ started.any
    /\ started.sameTick
    /\ \E e \in Range(timeouts) :
          /\ e.seq = inserted
          /\ e.next = started.next + started.seconds
          /\ e.seconds = started.seconds
          /\ e.func = started.func
          /\ e.next < now

\* C19: execute_rpc on a peer that is not connected makes exactly one inline
\* dial; if the peer is still not connected when the dial is over it returns
\* False, makes and registers no request, leaves the table of pending
\* requests as it is, writes nothing and calls no callback.
C19_FailedInlineDial ==
    /\ [][ \A t \in Tasks, p \in RegPeers, cb, enc \in BOOLEAN :
              (ExecuteRpc(t, p, cb, enc) /\ ~connected[p]) =>
                 (task'[t].pc = "dial" /\ UNCHANGED rpcVars) ]_vars
    /\ [][ \A t \in Tasks : TaskDialEnd(t) => task'[t].pc # "dial" ]_vars
    /\ [][ \A t \in Tasks :
              (TaskDialEnd(t) /\ ~connected'[task[t].peer]) =>
                 /\ task'[t].ret = "False"
                 /\ task'[t].pc = "idle"
                 /\ UNCHANGED rpcVars ]_vars

\* C19 witness: an execute_rpc returned False after its inline dial failed.
C19_ReturnedFalse ==
    \E t \in Tasks :
        /\ task[t].pc = "idle"
        /\ task[t].ret = "False"

\* Request i was written whole to peer p's socket (execute_rpc returned from
\* a successful _push_right) and is still in the table of pending requests.
SentAndPending(i) ==
    /\ request[i].onWire
    /\ i \in pending_requests
    /\ \A t \in Tasks : ~(task[t].pc = "push" /\ task[t].id = i)

\* C20: when the read loop of a peer sees the zero-byte read while a request
\* whose push succeeded is pending on that peer, the request is eventually
\* completed and removed from the table of pending requests (which calls its
\* callback, if any); no request stays pending for ever on a dropped
\* connection.  The error the claim asks for, "Transfer interrupted", is
\* left out of the formula: the request is not completed in any way.
C20_DroppedRequestsCompleted ==
    \A i \in ReqIds :
        (SentAndPending(i) /\ \E p \in RegPeers : Dropped(p))
            ~> (request[i].completed /\ i \notin pending_requests)

\* C21: an Exception raised by a timer callback stays in the greenlet
\* spawned for that firing: the main loop and the server are left as they
\* are and the loop goes on, but the entry is not pushed again, so it never
\* fires again.  An Exception raised by an on_connect callback in the
\* reconnect sweep ends the tick: run() logs at critical level, stops the
\* server and returns, and stays returned.  With no exit requested, run()
\* returns after nothing else.
C21_WhereACallbackExceptionGoes ==
    /\ [][ HelperRaise =>
             /\ main' = main
             /\ server' = server
             /\ exit' = exit
             /\ timeouts' = timeouts
             /\ inserted' = inserted
             /\ \A k \in 1..Len(helpers') : helpers'[k].seq # Head(helpers).seq ]_vars
    /\ [][ started.raised =>
             (Seqs(timeouts') \cup Seqs(helpers')) \cap {started.seq} = {} ]_vars
    /\ [][ SweepDialEndRaise =>
             /\ main'.pc = "returned"
             /\ main'.critical
             /\ server' = "stopped"
             /\ timeouts' = timeouts
             /\ helpers' = helpers ]_vars
    /\ [][ main.pc = "returned" =>
             (main'.pc = "returned" /\ server' = "stopped") ]_vars
    /\ [][ (main.pc # "returned" /\ main'.pc = "returned") =>
             (exit \/ main'.critical) ]_vars

\* C21 witness: a timer callback raised, its entry is gone, and a later tick
\* of the main loop has run all the same.
C21_TickAfterTimerRaise ==
    /\ started.raised
    /\ ~started.sameTick
    /\ main.pc = "sleep"
    /\ server = "started"
====
